---------------------------- MODULE Spec2Model ----------------------------
(***************************************************************************)
(* Model of app.py: the upload -> map -> send workflow of the mass mailer, *)
(* its session state, the batch dispatch loop and the .env credential      *)
(* store.                                                                  *)
(*                                                                         *)
(* Strings are sequences of tokens.  A token is one character (" ", ".",   *)
(* "=", "#", a line break) or an indivisible run of letters ("pdf",        *)
(* "mail").  "NA" stands for one non-ASCII character that has no ASCII     *)
(* decomposition.  Python's None is the empty option <<>> and a present    *)
(* value v is <<v>>; dictionaries (the session, os.environ, a record) are  *)
(* functions whose domain is the set of keys present.                      *)
(***************************************************************************)
EXTENDS Naturals, Sequences, FiniteSets, TLC

\* ------------------------------------------------------------------ text

None == <<>>

Some(v) == <<v>>

\* dict.get(k, d) / form.get(k, d) on an option-valued mapping
OptGet(o, d) == IF o = None THEN d ELSE o[1]

\* dict.get(k, d) on a dictionary
Get(d, k, default) == IF k \in DOMAIN d THEN d[k] ELSE default

\* d[k] = v
Put(d, k, v) == [x \in DOMAIN d \cup {k} |-> IF x = k THEN v ELSE d[x]]

EmptyDict == [x \in {} |-> <<>>]

Whitespace == {" ", "\n", "\r"}

LineBreaks == {"\n", "\r"}

RECURSIVE LStrip(_)
LStrip(s) == IF s # <<>> /\ s[1] \in Whitespace THEN LStrip(Tail(s)) ELSE s

RECURSIVE RStrip(_)
RStrip(s) ==
    IF s # <<>> /\ s[Len(s)] \in Whitespace
    THEN RStrip(SubSeq(s, 1, Len(s) - 1))
    ELSE s

\* str.strip()
Strip(s) == RStrip(LStrip(s))

\* str.replace(t, '') for every token t of a set
Remove(s, toks) == SelectSeq(s, LAMBDA t : t \notin toks)

UpperTokens == {"PDF", "CSV"}

LowerTok(t) == CASE t = "PDF" -> "pdf" [] t = "CSV" -> "csv" [] OTHER -> t

\* str.lower()
Lower(s) == [i \in DOMAIN s |-> LowerTok(s[i])]

\* str.endswith(suffix)
EndsWith(s, suf) ==
    /\ Len(s) >= Len(suf)
    /\ SubSeq(s, Len(s) - Len(suf) + 1, Len(s)) = suf

\* str.startswith(prefix)
StartsWith(s, pre) == Len(s) >= Len(pre) /\ SubSeq(s, 1, Len(pre)) = pre

\* index of the first occurrence of token t in s, 0 when there is none
RECURSIVE FindFrom(_, _, _)
FindFrom(s, t, i) ==
    IF i > Len(s) THEN 0 ELSE IF s[i] = t THEN i ELSE FindFrom(s, t, i + 1)

Find(s, t) == FindFrom(s, t, 1)

\* index of the last occurrence of token t in s, 0 when there is none
RECURSIVE RFindFrom(_, _, _)
RFindFrom(s, t, i) ==
    IF i = 0 THEN 0 ELSE IF s[i] = t THEN i ELSE RFindFrom(s, t, i - 1)

\* str.splitlines(): the lines of a text, without their line breaks; "\r\n" is
\* one break and a final break opens no further line
RECURSIVE SplitLinesAcc(_, _, _)
SplitLinesAcc(s, cur, i) ==
    IF i > Len(s)
    THEN (IF cur = <<>> THEN <<>> ELSE <<cur>>)
    ELSE IF s[i] = "\r" /\ i < Len(s) /\ s[i + 1] = "\n"
         THEN <<cur>> \o SplitLinesAcc(s, <<>>, i + 2)
         ELSE IF s[i] \in LineBreaks
              THEN <<cur>> \o SplitLinesAcc(s, <<>>, i + 1)
              ELSE SplitLinesAcc(s, Append(cur, s[i]), i + 1)

SplitLines(s) == SplitLinesAcc(s, <<>>, 1)

\* "\n".join(lines)
RECURSIVE JoinLines(_)
JoinLines(lines) ==
    IF lines = <<>> THEN <<>>
    ELSE IF Len(lines) = 1 THEN lines[1]
    ELSE lines[1] \o <<"\n">> \o JoinLines(Tail(lines))

\* ------------------------------------------------- werkzeug.secure_filename

\* tokens outside [A-Za-z0-9_.-], which the filter drops
FilenameUnsafe == {" ", "/", "NA", "\n", "\r", "=", "#", "@"}

\* "_".join(filename.split()): runs of whitespace become one "_", none at the ends
RECURSIVE JoinWords(_, _)
JoinWords(s, pending) ==
    IF s = <<>> THEN <<>>
    ELSE IF s[1] \in Whitespace THEN JoinWords(Tail(s), TRUE)
    ELSE (IF pending THEN <<"_">> ELSE <<>>) \o <<s[1]>> \o JoinWords(Tail(s), FALSE)

RECURSIVE StripDotUnderscore(_)
StripDotUnderscore(s) ==
    IF s # <<>> /\ s[1] \in {".", "_"} THEN StripDotUnderscore(Tail(s))
    ELSE IF s # <<>> /\ s[Len(s)] \in {".", "_"}
         THEN StripDotUnderscore(SubSeq(s, 1, Len(s) - 1))
         ELSE s

\* secure_filename(name): ASCII only, path separators to spaces, whitespace runs
\* to "_", remaining unsafe characters dropped, "." and "_" stripped at both ends
secure_filename(name) ==
    LET ascii  == Remove(name, {"NA"})
        nosep  == [i \in DOMAIN ascii |-> IF ascii[i] = "/" THEN " " ELSE ascii[i]]
        joined == JoinWords(LStrip(nosep), FALSE)
    IN  StripDotUnderscore(Remove(joined, FilenameUnsafe))

\* ----------------------------------------------------------- app.py helpers

ALLOWED_EXTENSIONS == {<<".", "xls">>, <<".", "xlsx">>, <<".", "csv">>}

\* os.path.splitext(name)[1]: from the last dot of the last path component, empty
\* when there is none or when only leading dots precede it
splitext_ext(name) ==
    LET slash == RFindFrom(name, "/", Len(name))
        dot   == RFindFrom(name, ".", Len(name))
        lead  == {i \in (slash + 1)..(dot - 1) : name[i] # "."}
    IN  IF dot > slash /\ lead # {} THEN SubSeq(name, dot, Len(name)) ELSE <<>>

allowed_file(filename) == splitext_ext(Lower(filename)) \in ALLOWED_EXTENSIONS

\* os.environ.get(key), fallback when the variable is not set
get_env_default(env, key, fallback) == Get(env, key, fallback)

\* the key of a .env line, line.split('=', 1)[0].strip()
LineKey(line) == Strip(SubSeq(line, 1, Find(line, "=") - 1))

\* '=' in line and not line.strip().startswith('#')
IsKeyLine(line) == Find(line, "=") > 0 /\ ~StartsWith(Strip(line), <<"#">>)

\* mapping[k] = line on an insertion-ordered dict: a sequence of <<key, line>>
RECURSIVE MapAssign(_, _, _)
MapAssign(mapping, k, line) ==
    IF mapping = <<>> THEN << <<k, line>> >>
    ELSE IF mapping[1][1] = k THEN << <<k, line>> >> \o Tail(mapping)
    ELSE <<mapping[1]>> \o MapAssign(Tail(mapping), k, line)

\* for line in lines: if it is a key line, mapping[key] = line
RECURSIVE MapLines(_, _)
MapLines(lines, mapping) ==
    IF lines = <<>> THEN mapping
    ELSE MapLines(Tail(lines),
                  IF IsKeyLine(lines[1])
                  THEN MapAssign(mapping, LineKey(lines[1]), lines[1])
                  ELSE mapping)

\* safe_v = v.replace('\n', '').replace('\r', '')
safe_v(v) == Remove(v, {"\n", "\r"})

\* for k, v in updates.items(): mapping[k] = f"{k}={safe_v}"; updates is a
\* sequence of <<key, value>> in the order of the dict literal
RECURSIVE MapUpdates(_, _)
MapUpdates(updates, mapping) ==
    IF updates = <<>> THEN mapping
    ELSE MapUpdates(Tail(updates),
                    MapAssign(mapping, updates[1][1],
                              updates[1][1] \o <<"=">> \o safe_v(updates[1][2])))

\* faulty variant of write_env_values: the lines already in the file are not kept
write_env_values_overwriting(content, updates) ==
    LET mapping   == MapUpdates(updates, <<>>)
        new_lines == [i \in DOMAIN mapping |-> mapping[i][2]]
    IN  JoinLines(new_lines) \o (IF new_lines # <<>> THEN <<"\n">> ELSE <<>>)

\* _write_env_values(updates): the new content of the .env file
write_env_values(content, updates) ==
    LET lines     == SplitLines(content)
        mapping   == MapUpdates(updates, MapLines(lines, <<>>))
        new_lines == [i \in DOMAIN mapping |-> mapping[i][2]]
    IN  JoinLines(new_lines) \o (IF new_lines # <<>> THEN <<"\n">> ELSE <<>>)

\* load_dotenv(): each KEY=value line of the file sets a variable that the process
\* environment does not hold yet (override is off); comments and blanks are skipped
RECURSIVE LoadLines(_, _)
LoadLines(lines, env) ==
    IF lines = <<>> THEN env
    ELSE LET line == lines[1]
             eq   == Find(line, "=")
             k    == LineKey(line)
             v    == Strip(SubSeq(line, eq + 1, Len(line)))
         IN  LoadLines(Tail(lines),
                       IF IsKeyLine(line) /\ k # <<>> THEN Put(env, k, v) ELSE env)

load_dotenv(content, env) ==
    LET fromFile == LoadLines(SplitLines(content), EmptyDict)
    IN  [k \in DOMAIN fromFile \cup DOMAIN env |->
            IF k \in DOMAIN env THEN env[k] ELSE fromFile[k]]

\* ------------------------------------------------------------ html_to_plain_text

BrTags == {"<br>", "<br/>", "<br />"}

\* tokens matched by </p\s*> whatever their case
CloseParagraph == {"</p>", "</P>", "</p >"}

\* tokens matched by <[^>]+>
OtherTags == {"<p>", "<b>", "</b>", "<BR>"}

Entity(t) == CASE t = "&amp;" -> "&" [] t = "&nbsp;" -> " " [] OTHER -> t

RECURSIVE ReplaceBreaks(_)
ReplaceBreaks(s) ==
    IF s = <<>> THEN <<>>
    ELSE (IF s[1] \in BrTags THEN <<"\n">>
          ELSE IF s[1] \in CloseParagraph THEN <<"\n", "\n">>
          ELSE <<s[1]>>) \o ReplaceBreaks(Tail(s))

html_to_plain_text(value) ==
    IF value = <<>> THEN <<>>
    ELSE LET text     == Remove(ReplaceBreaks(value), OtherTags)
             unescape == [i \in DOMAIN text |-> Entity(text[i])]
         IN  Strip(unescape)

\* -------------------------------------------------------------- exceptions

Exc(cls, msg) == [cls |-> cls, msg |-> msg]

\* str(exc)
ExcStr(exc) == exc.msg

NoExc == Exc("", <<>>)

\* ------------------------------------------------------------ jinja2.Template

SyntaxErrorTok == "{%"

RaiseIfNoName == "{%if not name%}{{1/0}}{%endif%}"

RECURSIVE RenderTokens(_, _, _)
RenderTokens(tpl, name, email) ==
    IF tpl = <<>> THEN <<>>
    ELSE (CASE tpl[1] = "{{name}}"    -> name
            [] tpl[1] = "{{email}}"   -> email
            [] tpl[1] = RaiseIfNoName -> <<>>
            [] OTHER                  -> <<tpl[1]>>)
         \o RenderTokens(Tail(tpl), name, email)

\* Template(tpl).render(name=name, email=email): the text, or the exception raised
\* by the compilation (a syntax error) or by the evaluation
Render(tpl, name, email) ==
    IF Find(tpl, SyntaxErrorTok) > 0
    THEN [ok |-> FALSE, out |-> <<>>,
          exc |-> Exc("TemplateSyntaxError", <<"unexpected end of template">>)]
    ELSE IF Find(tpl, RaiseIfNoName) > 0 /\ name = <<>>
    THEN [ok |-> FALSE, out |-> <<>>,
          exc |-> Exc("ZeroDivisionError", <<"division by zero">>)]
    ELSE [ok |-> TRUE, out |-> RenderTokens(tpl, name, email), exc |-> NoExc]

\* --------------------------------------------------------------- pandas

\* a cell is a string or NaN (an empty CSV field)
Cell(s) == [nan |-> FALSE, s |-> s]

NaN == [nan |-> TRUE, s |-> <<>>]

\* str(cell)
PyStr(cell) == IF cell.nan THEN <<"nan">> ELSE cell.s

\* rows of the uploaded tables; MaxRows bounds the rows that tables A and B hold
MaxRows == 3

\* the rows of the long table, more than the preview shows
LongRows == 6

ColMail == <<"mail">>

ColNombre == <<"nombre">>

ColAsunto == <<"asunto">>

Row(mail, nombre, asunto) ==
    (ColMail :> mail) @@ (ColNombre :> nombre) @@ (ColAsunto :> asunto)

Row2(mail, nombre) == (ColMail :> mail) @@ (ColNombre :> nombre)

RowsA ==
    << Row(Cell(<<"eva@x">>), Cell(<<" ">>), Cell(<<" ">>)),
       Row(Cell(<<" ">>), Cell(<<"Luis">>), NaN),
       Row(Cell(<<"ana@x">>), Cell(<<" ", "Ana", " ">>), Cell(<<"Aviso">>)),
       Row(Cell(<<"leo@x">>), Cell(<<"Leo">>), NaN),
       Row(NaN, Cell(<<"Mia">>), Cell(<<"Nota">>)) >>

RowsB ==
    << Row2(Cell(<<"bob@y">>), Cell(<<"Bob">>)),
       Row2(Cell(<<"kim@y">>), Cell(<<"Kim">>)) >>

\* row i of the long table: a distinct address, and a blank name in row 2
RowsLong ==
    [i \in 1..LongRows |->
        Row2(Cell(<<"r", ToString(i), "@z">>),
             Cell(IF i = 2 THEN <<" ">> ELSE <<"N", ToString(i)>>))]

Min(a, b) == IF a < b THEN a ELSE b

FirstRows(rows) == SubSeq(rows, 1, Min(MaxRows, Len(rows)))

\* the content of an uploaded data file, by its identifier
Table(content) ==
    CASE content = "TableA" ->
            [format |-> "csv", columns |-> <<ColMail, ColNombre, ColAsunto>>,
             rows |-> FirstRows(RowsA)]
      [] content = "TableB" ->
            [format |-> "xlsx", columns |-> <<ColMail, ColNombre>>,
             rows |-> FirstRows(RowsB)]
      [] content = "TableLong" ->
            [format |-> "csv", columns |-> <<ColMail, ColNombre>>, rows |-> RowsLong]
      [] OTHER -> [format |-> "bad", columns |-> <<>>, rows |-> <<>>]

UPLOAD_FOLDER == <<"uploads", "/">>

\* pd.read_csv(path) if path.lower().endswith('.csv') else pd.read_excel(path), on
\* the files of the disk: the table, or the exception raised
read_table(files, path) ==
    LET reader == IF EndsWith(Lower(path), <<".", "csv">>) THEN "csv" ELSE "xlsx"
        t      == Table(Get(files, path, "missing"))
    IN  IF path \notin DOMAIN files
        THEN [ok |-> FALSE, columns |-> <<>>, rows |-> <<>>,
              exc |-> Exc("FileNotFoundError", <<"No such file">>)]
        ELSE IF t.format # reader
        THEN [ok |-> FALSE, columns |-> <<>>, rows |-> <<>>,
              exc |-> Exc("ValueError", <<"cannot parse file">>)]
        ELSE [ok |-> TRUE, columns |-> t.columns, rows |-> t.rows, exc |-> NoExc]

\* c in df.columns
InColumns(c, columns) == \E i \in DOMAIN columns : columns[i] = c

\* ------------------------------------------------------------------ state

VARIABLES
    session,    \* Flask session: a dictionary of the workflow's keys
    files,      \* the upload folder: path -> content identifier
    envfile,    \* the text of the .env file (empty when there is none)
    environ,    \* os.environ: a dictionary key -> value
    sigfile,    \* templates/_signature.html: None when unreadable, else its text
    resp,       \* the response of the last request
    results,    \* the results list built by the last request
    samples,    \* the samples handed to the view by the last request
    calls,      \* SMTP calls and pauses of the last request, in order
    smtp_defaults, \* the SMTP form defaults handed to confirm.html
    request,    \* history: what the last request asked to remember and wrote
    stale,      \* history: mapped_records predate the latest successful upload
    done        \* history: the steps that have succeeded in this session

vars == <<session, files, envfile, environ, sigfile, resp, results, samples,
          calls, smtp_defaults, request, stale, done>>

store == <<envfile, environ>>

View(step, view) == [step |-> step, kind |-> "view", target |-> view, flash |-> <<>>]

\* flash(msg); return redirect(url_for('index'))
Redirect(step, msg) ==
    [step |-> step, kind |-> "redirect", target |-> "index", flash |-> msg]

\* an exception leaves the handler: Flask answers 500
Uncaught(step, exc) ==
    [step |-> step, kind |-> "error", target |-> exc.cls, flash |-> <<>>]

HasKey(k) == k \in DOMAIN session

\* the remember_credentials field of the request's form (an option) and the
\* updates it handed to _write_env_values (none: <<>>)
Request(remember, written) == [remember |-> remember, written |-> written]

NoRequest == Request(None, <<>>)

\* faulty variant of flash_redirect: the session is cleared on the way back to
\* the start page
flash_redirect_clearing(step, msg) ==
    /\ resp' = Redirect(step, msg)
    /\ session' = EmptyDict
    /\ UNCHANGED <<stale, done>>

\* faulty variant of flash_redirect: the upload is forgotten on the way back to
\* the start page
flash_redirect_forgetting_upload(step, msg) ==
    /\ resp' = Redirect(step, msg)
    /\ session' = [k \in DOMAIN session \ {"upload_path"} |-> session[k]]
    /\ UNCHANGED <<stale, done>>

\* flash(msg); return redirect(url_for('index')): the session is left as it is
flash_redirect(step, msg) ==
    /\ resp' = Redirect(step, msg)
    /\ UNCHANGED <<session, stale, done>>

\* ------------------------------------------------------------------ index

\* GET /: the start form
index ==
    /\ resp' = View("index", "index.html")
    /\ results' = <<>>
    /\ samples' = <<>>
    /\ calls' = <<>>
    /\ smtp_defaults' = EmptyDict
    /\ request' = NoRequest
    /\ UNCHANGED <<session, files, envfile, environ, sigfile, stale, done>>

\* ---------------------------------------------------------------- prepare

\* an uploaded file part: its client-side name and its content
Upload(filename, content) == [filename |-> filename, content |-> content]

\* df.head(10)
Head10(rows) == SubSeq(rows, 1, Min(10, Len(rows)))

\* the session after a successful upload
prepare_session(s, path, message_template, default_subject, columns) ==
    Put(Put(Put(Put(s, "upload_path", path),
                "message_template", message_template),
            "default_subject", default_subject),
        "columns", columns)

\* POST /prepare with the file part (an option), the template and the subject
prepare(file, message_template, default_subject) ==
    LET f        == OptGet(file, Upload(<<>>, "missing"))
        filename == secure_filename(f.filename)
        path     == UPLOAD_FOLDER \o filename
        saved    == Put(files, path, f.content)
        df       == read_table(saved, path)
    IN  /\ results' = <<>>
        /\ calls' = <<>>
        /\ smtp_defaults' = EmptyDict
        /\ request' = NoRequest
        /\ UNCHANGED <<envfile, environ, sigfile>>
        /\ IF file = None \/ f.filename = <<>>
           THEN /\ flash_redirect("prepare", <<"Sube un archivo Excel o CSV">>)
                /\ samples' = <<>>
                /\ UNCHANGED files
           ELSE IF ~allowed_file(f.filename)
           THEN /\ flash_redirect("prepare", <<"Formato no soportado">>)
                /\ samples' = <<>>
                /\ UNCHANGED files
           ELSE IF ~df.ok
           THEN /\ files' = saved
                /\ flash_redirect("prepare",
                                  <<"No se pudo leer el archivo: ">> \o ExcStr(df.exc))
                /\ samples' = <<>>
           ELSE /\ files' = saved
                /\ session' = prepare_session(session, path, message_template,
                                              default_subject, df.columns)
                /\ resp' = View("prepare", "preview.html")
                /\ samples' = Head10(df.rows)
                /\ stale' = HasKey("mapped_records")
                /\ done' = done \cup {"prepare"}

\* ------------------------------------------------------------ map_columns

\* not c, for an option-valued form field
Falsy(opt) == opt = None \/ opt[1] = <<>>

\* the normalized record of one row
map_record(row, email_col, name_col, subject_col, columns) ==
    LET base == ("email" :> Strip(PyStr(row[email_col])))
                @@ ("name" :> Strip(PyStr(row[name_col])))
    IN  IF ~Falsy(subject_col) /\ InColumns(subject_col[1], columns)
        THEN Put(base, "subject", Strip(PyStr(row[subject_col[1]])))
        ELSE base

\* rec.get('subject') or default_subject
SampleSubject(rec, default_subject) ==
    IF Get(rec, "subject", <<>>) # <<>> THEN rec["subject"] ELSE default_subject

\* one rendered preview sample, or the inline error sample
render_sample(rec, message_template, default_subject) ==
    LET r == Render(message_template, Get(rec, "name", <<>>), Get(rec, "email", <<>>))
    IN  IF r.ok
        THEN [to |-> rec["email"], subject |-> SampleSubject(rec, default_subject),
              body |-> r.out]
        ELSE [to |-> rec["email"], subject |-> <<"(error)">>,
              body |-> <<"Error al renderizar: ">> \o ExcStr(r.exc)]

\* faulty variant of First5: every record is previewed
all_records(records) == records

\* records[:5]
First5(records) == SubSeq(records, 1, Min(5, Len(records)))

\* the session after a successful mapping
map_session(s, records, email_col, name_col, subject_col) ==
    Put(Put(Put(Put(s, "mapped_records", records),
                "email_col", email_col[1]),
            "name_col", name_col[1]),
        "subject_col", OptGet(subject_col, <<>>))

KeyEmail == <<"SMTP_EMAIL">>

KeyPassword == <<"SMTP_APP_PASSWORD">>

KeyFromName == <<"SMTP_FROM_NAME">>

KeyHost == <<"SMTP_HOST">>

KeyPort == <<"SMTP_PORT">>

DefaultFromName == <<"Centro de Idiomas">>

DefaultHost == <<"smtp.gmail.com">>

\* the SMTP defaults of the confirm form, read from the environment
env_defaults(env) ==
    [smtp_email        |-> get_env_default(env, KeyEmail, <<>>),
     smtp_app_password |-> get_env_default(env, KeyPassword, <<"dgjr jxdm dske dxos">>),
     from_name         |-> get_env_default(env, KeyFromName, DefaultFromName),
     smtp_host         |-> get_env_default(env, KeyHost, DefaultHost),
     smtp_port         |-> get_env_default(env, KeyPort, <<"587">>)]

\* [c for c in [email_col, name_col] if not c or c not in df.columns]
missing_columns(email_col, name_col, columns) ==
    {c \in {email_col, name_col} : Falsy(c) \/ ~InColumns(c[1], columns)}

\* POST /map with the three column fields (options)
map_columns(email_col, name_col, subject_col) ==
    LET upload_path == Get(session, "upload_path", <<>>)
        df          == read_table(files, upload_path)
        missing     == missing_columns(email_col, name_col, df.columns)
        records     == [i \in DOMAIN df.rows |->
                            map_record(df.rows[i], email_col[1], name_col[1],
                                       subject_col, df.columns)]
        tpl         == Get(session, "message_template", <<>>)
        subj        == Get(session, "default_subject", <<>>)
    IN  /\ results' = <<>>
        /\ calls' = <<>>
        /\ request' = NoRequest
        /\ UNCHANGED <<files, envfile, environ, sigfile>>
        /\ IF upload_path = <<>>
           THEN /\ flash_redirect("map", <<"Sesion expirada">>)
                /\ samples' = <<>>
                /\ smtp_defaults' = EmptyDict
           ELSE IF ~df.ok
           THEN /\ flash_redirect("map",
                                  <<"No se pudo leer el archivo: ">> \o ExcStr(df.exc))
                /\ samples' = <<>>
                /\ smtp_defaults' = EmptyDict
           ELSE IF missing # {}
           THEN /\ flash_redirect("map", <<"Selecciona correctamente las columnas">>)
                /\ samples' = <<>>
                /\ smtp_defaults' = EmptyDict
           ELSE /\ session' = map_session(session, records, email_col, name_col,
                                          subject_col)
                /\ resp' = View("map", "confirm.html")
                /\ samples' = [i \in DOMAIN First5(records) |->
                                  render_sample(records[i], tpl, subj)]
                /\ smtp_defaults' = env_defaults(environ)
                /\ stale' = FALSE
                /\ done' = done \cup {"map"}

\* ------------------------------------------------------------ send_emails

\* int(text): the number, or ValueError; surrounding whitespace is accepted
NumTokens == {"587", "25", "0587"}

NumVal(t) == CASE t = "25" -> 25 [] OTHER -> 587

ParseInt(text) ==
    LET t == Strip(text)
    IN  IF Len(t) = 1 /\ t[1] \in NumTokens
        THEN [ok |-> TRUE, n |-> NumVal(t[1]), exc |-> NoExc]
        ELSE [ok |-> FALSE, n |-> 0,
              exc |-> Exc("ValueError", <<"invalid literal for int()">>)]

\* str(n)
IntStr(n) == IF n = 25 THEN <<"25">> ELSE <<"587">>

\* an uploaded attachment part; reading an unreadable part raises
Part(filename, bytes, readable) ==
    [filename |-> filename, bytes |-> bytes, readable |-> readable]

\* for f in parts: if f and f.filename: try: append {name, bytes} except: pass
RECURSIVE read_attachments(_)
read_attachments(parts) ==
    IF parts = <<>> THEN <<>>
    ELSE (IF parts[1].filename # <<>> /\ parts[1].readable
          THEN << [name |-> secure_filename(parts[1].filename),
                   bytes |-> parts[1].bytes] >>
          ELSE <<>>)
         \o read_attachments(Tail(parts))

\* the attachments of the request: the 'attachments' list, then the legacy
\* 'attachment' field (an option)
collect_attachments(plural, legacy) ==
    read_attachments(plural) \o read_attachments(legacy)

\* att.get('name') or 'adjunto.pdf'
att_name(att) == IF att.name # <<>> THEN att.name ELSE <<"adjunto", ".", "pdf">>

\* the attachment is attached: non-empty bytes and a name ending in .pdf
is_attached(att) ==
    att.bytes # <<>> /\ EndsWith(Lower(att_name(att)), <<".", "pdf">>)

\* the MIMEApplication parts of one message, in the order of the attachments
RECURSIVE attachment_parts(_)
attachment_parts(attachments) ==
    IF attachments = <<>> THEN <<>>
    ELSE (IF is_attached(attachments[1])
          THEN << [Name |-> att_name(attachments[1]),
                   payload |-> attachments[1].bytes] >>
          ELSE <<>>)
         \o attachment_parts(Tail(attachments))

FallbackSignature == <<"Coordinacion de Matricula">>

\* faulty variant of load_signature: no signature when reading the file fails
load_signature_or_nothing(file) ==
    IF file = None THEN <<>> ELSE html_to_plain_text(Strip(file[1]))

\* the signature text: the file's text converted, or the fallback when reading fails
load_signature(file) ==
    IF file = None THEN FallbackSignature ELSE html_to_plain_text(Strip(file[1]))

\* body_text, with the signature after a blank line when there is one
with_signature(body_text, signature_text) ==
    IF signature_text # <<>> THEN body_text \o <<"\n", "\n">> \o signature_text
    ELSE body_text

\* faulty variant of message_subject: no literal behind the default subject
message_subject_no_literal(rec, default_subject) ==
    IF Get(rec, "subject", <<>>) # <<>> THEN rec["subject"] ELSE default_subject

\* rec.get('subject') or default_subject or 'Comunicado'
message_subject(rec, default_subject) ==
    IF Get(rec, "subject", <<>>) # <<>> THEN rec["subject"]
    ELSE IF default_subject # <<>> THEN default_subject
    ELSE <<"Comunicado">>

\* formataddr((from_name, smtp_email))
formataddr(name, addr) ==
    IF name # <<>> THEN name \o <<" <">> \o addr \o <<">">> ELSE addr

NoMsg == [To |-> <<>>, Subject |-> <<>>, From |-> <<>>, body |-> <<>>, parts |-> <<>>]

\* one entry of calls; idx is the record a sendmail or a pause belongs to
Call(op, ok, idx, rcpts, msg) ==
    [op |-> op, ok |-> ok, idx |-> idx, rcpts |-> rcpts, msg |-> msg]

SmtpCall(op, ok) == Call(op, ok, 0, <<>>, NoMsg)

Result(to, status, detail) == [to |-> to, status |-> status, detail |-> detail]

SmtpError == Exc("SMTPException", <<"smtp error">>)

\* the recipient of a record, rec.get('email', '').strip()
to_addr(rec) == Strip(Get(rec, "email", <<>>))

\* the pause after a successful sendmail, time.sleep(0.5)
pause_after(idx, sent) == IF sent THEN <<Call("sleep", TRUE, idx, <<>>, NoMsg)>> ELSE <<>>

\* faulty variant of send_one: the result is recorded as sent before sendmail is
\* known to have succeeded
send_one_optimistic(rec, idx, c, refused) ==
    LET to     == to_addr(rec)
        r      == Render(c.message_template, Get(rec, "name", <<>>), to)
        msg    == [To      |-> to,
                   Subject |-> message_subject(rec, c.default_subject),
                   From    |-> formataddr(c.from_name, c.smtp_email),
                   body    |-> with_signature(r.out, c.signature_text),
                   parts   |-> attachment_parts(c.attachments)]
        sent   == idx \notin refused
    IN  IF to = <<>>
        THEN [result |-> Result(to, "error", <<"Correo vacio">>), calls |-> <<>>]
        ELSE IF ~r.ok
        THEN [result |-> Result(to, "error", ExcStr(r.exc)), calls |-> <<>>]
        ELSE [result |-> Result(to, "enviado", <<>>),
              calls  |-> <<Call("sendmail", sent, idx, <<to>>, msg)>>
                         \o pause_after(idx, sent)]

\* the body of the loop for record idx: its result and its calls.  c holds the
\* request's values; refused is the set of records whose sendmail raises
send_one(rec, idx, c, refused) ==
    LET to     == to_addr(rec)
        r      == Render(c.message_template, Get(rec, "name", <<>>), to)
        msg    == [To      |-> to,
                   Subject |-> message_subject(rec, c.default_subject),
                   From    |-> formataddr(c.from_name, c.smtp_email),
                   body    |-> with_signature(r.out, c.signature_text),
                   parts   |-> attachment_parts(c.attachments)]
        sent   == idx \notin refused
    IN  IF to = <<>>
        THEN [result |-> Result(to, "error", <<"Correo vacio">>), calls |-> <<>>]
        ELSE IF ~r.ok
        THEN [result |-> Result(to, "error", ExcStr(r.exc)), calls |-> <<>>]
        ELSE [result |-> IF sent THEN Result(to, "enviado", <<>>)
                         ELSE Result(to, "error", ExcStr(SmtpError)),
              calls  |-> <<Call("sendmail", sent, idx, <<to>>, msg)>>
                         \o pause_after(idx, sent)]

\* faulty variant of send_loop: a record without email is skipped without a result
RECURSIVE send_loop_dropping_empty(_, _, _, _)
send_loop_dropping_empty(records, idx, c, refused) ==
    IF idx > Len(records) THEN [results |-> <<>>, calls |-> <<>>]
    ELSE LET one  == send_one(records[idx], idx, c, refused)
             rest == send_loop_dropping_empty(records, idx + 1, c, refused)
         IN  [results |-> (IF to_addr(records[idx]) = <<>> THEN <<>>
                           ELSE <<one.result>>) \o rest.results,
              calls   |-> one.calls \o rest.calls]

\* faulty variant of send_loop: each result is put in front of the list
RECURSIVE send_loop_prepending(_, _, _, _)
send_loop_prepending(records, idx, c, refused) ==
    IF idx > Len(records) THEN [results |-> <<>>, calls |-> <<>>]
    ELSE LET one  == send_one(records[idx], idx, c, refused)
             rest == send_loop_prepending(records, idx + 1, c, refused)
         IN  [results |-> rest.results \o <<one.result>>,
              calls   |-> one.calls \o rest.calls]

\* for idx, rec in enumerate(records, start=1): the results and the calls
RECURSIVE send_loop(_, _, _, _)
send_loop(records, idx, c, refused) ==
    IF idx > Len(records) THEN [results |-> <<>>, calls |-> <<>>]
    ELSE LET one  == send_one(records[idx], idx, c, refused)
             rest == send_loop(records, idx + 1, c, refused)
         IN  [results |-> <<one.result>> \o rest.results,
              calls   |-> one.calls \o rest.calls]

ConnectSteps == <<"connect", "ehlo", "starttls", "login">>

\* faulty variant of connect_calls: the login is made before the upgrade to TLS
RECURSIVE connect_calls_login_first(_, _)
connect_calls_login_first(i, failing) ==
    LET steps == <<"connect", "ehlo", "login", "starttls">>
    IN  IF i > Len(steps) THEN <<>>
        ELSE IF steps[i] = failing THEN <<SmtpCall(steps[i], FALSE)>>
        ELSE <<SmtpCall(steps[i], TRUE)>> \o connect_calls_login_first(i + 1, failing)

\* smtplib.SMTP(host, port); ehlo(); starttls(); login(): the calls made when the
\* step named by failing raises ("ok": none does)
RECURSIVE connect_calls(_, _)
connect_calls(i, failing) ==
    IF i > Len(ConnectSteps) THEN <<>>
    ELSE IF ConnectSteps[i] = failing THEN <<SmtpCall(ConnectSteps[i], FALSE)>>
    ELSE <<SmtpCall(ConnectSteps[i], TRUE)>> \o connect_calls(i + 1, failing)

\* try: server.quit() except: pass
quit_call(quit_raises) == <<SmtpCall("quit", ~quit_raises)>>

\* the updates written when the credentials are remembered
env_updates(c) ==
    << <<KeyEmail, c.smtp_email>>,
       <<KeyPassword, c.smtp_app_password>>,
       <<KeyFromName, c.from_name>>,
       <<KeyHost, c.smtp_host>>,
       <<KeyPort, IntStr(c.smtp_port)>> >>

\* os.environ[k] = v for every update
RECURSIVE refresh_environ(_, _)
refresh_environ(env, updates) ==
    IF updates = <<>> THEN env
    ELSE refresh_environ(Put(env, updates[1][1], updates[1][2]), Tail(updates))

\* the request's form: every field is an option (None when the field is absent)
Form(smtp_email, smtp_app_password, from_name, smtp_host, smtp_port, remember) ==
    [smtp_email |-> smtp_email, smtp_app_password |-> smtp_app_password,
     from_name |-> from_name, smtp_host |-> smtp_host, smtp_port |-> smtp_port,
     remember_credentials |-> remember]

\* value or default, for a stripped field that is empty
OrDefault(v, d) == IF v # <<>> THEN v ELSE d

\* what the environment does to this request: the connection step that raises,
\* the records whose sendmail raises, whether quit raises, and how the write of
\* the .env file ends ("ok", "open": open() raises, "write": write() raises
\* after the file was truncated)
Oracle(connect, refused, quit_raises, env_write) ==
    [connect |-> connect, refused |-> refused, quit_raises |-> quit_raises,
     env_write |-> env_write]

\* faulty variant of remember_on: any value of the field, or its absence read
\* with a non-empty default, counts as set
remember_truthy(form) == OptGet(form.remember_credentials, <<"off">>) # <<>>

\* remember = request.form.get('remember_credentials') == 'on'
remember_on(form) == form.remember_credentials = Some(<<"on">>)

\* the values of the request: the session's template and subject, the stripped
\* form fields with their defaults, the attachments read, the signature
request_values(form, plural, legacy) ==
    [message_template  |-> Get(session, "message_template", <<>>),
     default_subject   |-> Get(session, "default_subject", <<>>),
     smtp_email        |-> Strip(OptGet(form.smtp_email, <<>>)),
     smtp_app_password |-> Strip(OptGet(form.smtp_app_password, <<>>)),
     from_name         |-> OrDefault(Strip(OptGet(form.from_name, <<>>)), DefaultFromName),
     smtp_host         |-> OrDefault(Strip(OptGet(form.smtp_host, DefaultHost)),
                                     DefaultHost),
     smtp_port         |-> ParseInt(OptGet(form.smtp_port, <<"587">>)).n,
     attachments       |-> collect_attachments(plural, legacy),
     signature_text    |-> load_signature(sigfile)]

\* faulty variant of smtp_session: the loop runs although the connection failed
smtp_session_no_abort(records, c, o) ==
    LET opened == connect_calls(1, o.connect)
        loop   == send_loop(records, 1, c, o.refused)
    IN  [connected |-> o.connect = "ok", results |-> loop.results,
         calls |-> opened \o loop.calls \o quit_call(o.quit_raises)]

\* faulty variant of smtp_session: the session is closed only when every record
\* was sent
smtp_session_quit_if_all_sent(records, c, o) ==
    LET opened == connect_calls(1, o.connect)
        loop   == send_loop(records, 1, c, o.refused)
        failed == {i \in DOMAIN loop.results : loop.results[i].status = "error"}
    IN  IF o.connect # "ok"
        THEN [connected |-> FALSE, results |-> <<>>, calls |-> opened]
        ELSE [connected |-> TRUE, results |-> loop.results,
              calls |-> opened \o loop.calls
                        \o (IF failed = {} THEN quit_call(o.quit_raises) ELSE <<>>)]

\* the SMTP session of a request: connect and log in, and when that succeeded
\* the loop over the records, then quit
smtp_session(records, c, o) ==
    LET opened == connect_calls(1, o.connect)
        loop   == send_loop(records, 1, c, o.refused)
    IN  IF o.connect # "ok"
        THEN [connected |-> FALSE, results |-> <<>>, calls |-> opened]
        ELSE [connected |-> TRUE, results |-> loop.results,
              calls |-> opened \o loop.calls \o quit_call(o.quit_raises)]

\* faulty variant of no_recipients: the batch starts whatever the session holds
no_recipients_ignored(records) == FALSE

\* if not records, for records = session.get('mapped_records') or []
no_recipients(records) == records = <<>>

\* POST /send with the form, the attachment parts and the environment's answers
send_emails(form, plural, legacy, o) ==
    LET records  == Get(session, "mapped_records", <<>>)
        port     == ParseInt(OptGet(form.smtp_port, <<"587">>))
        c        == request_values(form, plural, legacy)
        remember == remember_on(form)
        smtp     == smtp_session(records, c, o)
        updates  == env_updates(c)
        stored   == /\ ~no_recipients(records) /\ port.ok
                    /\ c.smtp_email # <<>> /\ c.smtp_app_password # <<>>
                    /\ smtp.connected /\ remember /\ o.env_write = "ok"
    IN  /\ samples' = <<>>
        /\ smtp_defaults' = EmptyDict
        /\ UNCHANGED <<files, sigfile>>
        /\ request' = Request(form.remember_credentials,
                              IF stored THEN updates ELSE <<>>)
        /\ IF no_recipients(records)
           THEN /\ flash_redirect("send", <<"No hay destinatarios">>)
                /\ results' = <<>>
                /\ calls' = <<>>
                /\ UNCHANGED <<envfile, environ>>
           ELSE IF ~port.ok
           THEN /\ resp' = Uncaught("send", port.exc)
                /\ results' = <<>>
                /\ calls' = <<>>
                /\ UNCHANGED <<session, stale, done, envfile, environ>>
           ELSE IF c.smtp_email = <<>> \/ c.smtp_app_password = <<>>
           THEN /\ flash_redirect("send", <<"Debes ingresar el correo remitente">>)
                /\ results' = <<>>
                /\ calls' = <<>>
                /\ UNCHANGED <<envfile, environ>>
           ELSE IF ~smtp.connected
           THEN /\ flash_redirect("send", <<"No se pudo conectar a SMTP: ">>
                                          \o ExcStr(SmtpError))
                /\ results' = smtp.results
                /\ calls' = smtp.calls
                /\ UNCHANGED <<envfile, environ>>
           ELSE /\ results' = smtp.results
                /\ calls' = smtp.calls
                /\ UNCHANGED <<session, stale>>
                /\ IF ~remember
                   THEN /\ resp' = View("send", "result.html")
                        /\ done' = done \cup {"send"}
                        /\ UNCHANGED <<envfile, environ>>
                   ELSE IF o.env_write = "open"
                   THEN /\ resp' = Uncaught("send", Exc("OSError", <<"Permission denied">>))
                        /\ UNCHANGED <<envfile, environ, done>>
                   ELSE IF o.env_write = "write"
                   THEN /\ resp' = Uncaught("send", Exc("OSError", <<"No space left">>))
                        /\ envfile' = <<>>
                        /\ UNCHANGED <<environ, done>>
                   ELSE /\ resp' = View("send", "result.html")
                        /\ done' = done \cup {"send"}
                        /\ envfile' = write_env_values(envfile, updates)
                        /\ environ' = refresh_environ(environ, updates)

\* ------------------------------------------------------------------ inputs

NameACsv == <<"a", ".", "csv">>

NameBXlsx == <<"b", ".", "xlsx">>

NameCTxt == <<"c", ".", "txt">>

UploadA == Some(Upload(NameACsv, "TableA"))

UploadB == Some(Upload(NameBXlsx, "TableB"))

UploadLong == Some(Upload(<<"long", ".", "csv">>, "TableLong"))

\* the file parts offered to /prepare
UploadInputs ==
    { None,
      Some(Upload(<<>>, "TableA")),
      UploadA,
      Some(Upload(NameACsv, "Corrupt")),
      UploadB,
      Some(Upload(NameCTxt, "TableA")) }

TemplateHola == <<"Hola ", "{{name}}">>

TemplateBroken == <<"Hola ", SyntaxErrorTok>>

TemplateNeedsName == <<RaiseIfNoName, "Hi ", "{{email}}">>

TemplateInputs == {TemplateHola, TemplateBroken, TemplateNeedsName}

SubjectInputs == {<<>>, <<"Info">>}

EmailColInputs == {None, Some(<<>>), Some(ColMail), Some(<<"zzz">>)}

NameColInputs == {Some(ColNombre), Some(<<"zzz">>)}

SubjectColInputs == {None, Some(ColAsunto)}

PdfUpper == Part(<<"doc", ".", "PDF">>, <<"b1">>, TRUE)

TxtPart == Part(<<"notes", ".", "txt">>, <<"b2">>, TRUE)

EmptyPdf == Part(<<"e", ".", "pdf">>, <<>>, TRUE)

UnreadablePdf == Part(<<"u", ".", "pdf">>, <<"b4">>, FALSE)

NoAsciiName == Part(<<"NA", "NA">>, <<"b5">>, TRUE)

NoAsciiPdf == Part(<<"NA", ".", "pdf">>, <<"b6">>, TRUE)

NoNamePart == Part(<<>>, <<"b7">>, TRUE)

LegacyPdf == Part(<<"old", ".", "pdf">>, <<"b8">>, TRUE)

\* the 'attachments' lists offered to /send
AttachmentInputs ==
    { <<>>,
      <<PdfUpper>>,
      <<TxtPart, PdfUpper>>,
      <<LegacyPdf, EmptyPdf, PdfUpper>>,
      <<EmptyPdf, UnreadablePdf, NoNamePart>>,
      <<NoAsciiName>>,
      <<NoAsciiPdf, PdfUpper>> }

\* the legacy 'attachment' field
LegacyInputs == {None, Some(LegacyPdf), Some(TxtPart)}

GoodForm == Form(Some(<<" ", "u@x">>), Some(<<"pw">>), None, None, None, None)

RememberForm ==
    Form(Some(<<"u@x">>), Some(<<"pw">>), None, None, None, Some(<<"on">>))

NoEmailForm == Form(Some(<<" ">>), Some(<<"pw">>), None, None, None, Some(<<"on">>))

NoPasswordForm == Form(Some(<<"u@x">>), None, None, None, None, Some(<<"on">>))

BadPortForm ==
    Form(Some(<<"u@x">>), Some(<<"pw">>), None, None, Some(<<"abc">>), Some(<<"on">>))

BadPortNoEmailForm ==
    Form(None, Some(<<"pw">>), None, None, Some(<<"abc">>), Some(<<"on">>))

\* the forms offered to /send by the workflow specification
FlowForms ==
    {GoodForm, RememberForm, NoEmailForm, NoPasswordForm, BadPortForm,
     BadPortNoEmailForm}

\* the forms offered to /send by the credential store's specification
StoreForms ==
    { Form(e, p, n, h, q, r) :
        e \in {None, Some(<<" ", "u@x">>)},
        p \in {Some(<<"pw">>)},
        n \in {None, Some(<<"CI", "\n", "X">>)},
        h \in {Some(<<" ">>), Some(<<"mail.x">>)},
        q \in {None, Some(<<" ", "25">>), Some(<<"abc">>)},
        r \in {None, Some(<<"on">>)} }
    \cup {NoPasswordForm}

EnvWrites == {"ok", "open", "write"}

\* the request reaches the SMTP connection
reaches_smtp(form) ==
    /\ Get(session, "mapped_records", <<>>) # <<>>
    /\ ParseInt(OptGet(form.smtp_port, <<"587">>)).ok
    /\ Strip(OptGet(form.smtp_email, <<>>)) # <<>>
    /\ Strip(OptGet(form.smtp_app_password, <<>>)) # <<>>

QuietOracle == Oracle("ok", {}, FALSE, "ok")

ConnectFailures == {"connect", "ehlo", "starttls", "login"}

\* the environment's answers that a request of the dispatch specification can
\* observe: any connection step may raise, any set of sendmail calls, quit
DispatchOracles(form) ==
    IF ~reaches_smtp(form) THEN {QuietOracle}
    ELSE { Oracle(st, {}, FALSE, "ok") : st \in ConnectFailures }
         \cup
         { Oracle("ok", refused, q, "ok") :
             refused \in SUBSET (1..Len(session["mapped_records"])),
             q \in BOOLEAN }

\* the environment's answers in the other specifications: the connection may
\* fail, the first sendmail may raise, the write of the .env file may fail
PlainOracles(form) ==
    IF ~reaches_smtp(form) THEN {QuietOracle}
    ELSE { QuietOracle, Oracle("login", {}, FALSE, "ok"), Oracle("ok", {1}, TRUE, "ok") }
         \cup
         { Oracle("ok", {}, FALSE, w) :
             w \in IF remember_on(form) THEN EnvWrites ELSE {"ok"} }

EnvFileNone == <<>>

EnvFileOld ==
    <<"#", " ", "creds", "\n", "OTHER", "=", "1", "\n", "SMTP_HOST", "=", "old", "\n">>

EnvFileDup ==
    <<"OTHER", "=", "1", "\n", "#", "X", "=", "0", "\n", " ", "OTHER", " ", "=", "2",
      "\n", "SMTP_PORT", "=", "465">>

SigFileHtml == Some(<<"<p>", "Firma", "<br>", "UNMSM", "</p>", "\n">>)

SigFileInputs == {None, Some(<<>>), SigFileHtml}

\* ---------------------------------------------------------- specification

\* the state after start-up, for the given .env texts and signature files
InitWith(envfiles, sigfiles) ==
    /\ session = EmptyDict
    /\ files = EmptyDict
    /\ envfile \in envfiles
    /\ environ = load_dotenv(envfile, EmptyDict)
    /\ sigfile \in sigfiles
    /\ resp = View("start", "index.html")
    /\ results = <<>>
    /\ samples = <<>>
    /\ calls = <<>>
    /\ smtp_defaults = EmptyDict
    /\ request = NoRequest
    /\ stale = FALSE
    /\ done = {}

Index == index

\* The workflow: every kind of upload and mapping, a few forms.

Init == InitWith({EnvFileNone}, {SigFileHtml})

Prepare ==
    \E file \in UploadInputs, t \in {TemplateHola, TemplateNeedsName} :
        prepare(file, t, <<"Info">>)

MapColumns ==
    \E e \in EmailColInputs, n \in NameColInputs, sc \in SubjectColInputs :
        map_columns(e, n, sc)

SendEmails ==
    \E form \in FlowForms :
        \E o \in PlainOracles(form) : send_emails(form, <<>>, None, o)

Next == Index \/ Prepare \/ MapColumns \/ SendEmails

Spec == Init /\ [][Next]_vars

\* The dispatch loop: every template, subject and signature, every outcome of
\* the SMTP calls.

InitDispatch == InitWith({EnvFileNone}, SigFileInputs)

PrepareDispatch ==
    \E t \in TemplateInputs, subj \in SubjectInputs : prepare(UploadA, t, subj)

MapDispatch ==
    \E sc \in {None, Some(ColAsunto)} : map_columns(Some(ColMail), Some(ColNombre), sc)

SendDispatch ==
    \/ \E form \in {GoodForm, NoEmailForm} :
          \E o \in DispatchOracles(form) :
              send_emails(form, <<TxtPart, PdfUpper>>, None, o)
    \/ \E refused \in {{}, {1}} :
          send_emails(RememberForm, <<>>, None, Oracle("ok", refused, TRUE, "ok"))

NextDispatch == Index \/ PrepareDispatch \/ MapDispatch \/ SendDispatch

SpecDispatch == InitDispatch /\ [][NextDispatch]_vars

\* The attachments: every list of parts and legacy field.

PrepareAttach ==
    \E file \in {UploadA, UploadB}, subj \in SubjectInputs :
        prepare(file, TemplateHola, subj)

MapAttach == map_columns(Some(ColMail), Some(ColNombre), None)

SendAttach ==
    \E form \in {GoodForm, NoEmailForm}, plural \in AttachmentInputs,
       legacy \in LegacyInputs :
        \E o \in {QuietOracle, Oracle("ok", {1}, FALSE, "ok")} :
            send_emails(form, plural, legacy, o)

NextAttach == Index \/ PrepareAttach \/ MapAttach \/ SendAttach

SpecAttach == Init /\ [][NextAttach]_vars

\* The preview: a table longer than the preview, every template and subject.

PreparePreview ==
    \E file \in {UploadA, UploadLong}, t \in TemplateInputs, subj \in SubjectInputs :
        prepare(file, t, subj)

MapPreview ==
    \E e \in {Some(ColMail), Some(<<"zzz">>)}, sc \in SubjectColInputs :
        map_columns(e, Some(ColNombre), sc)

SendPreview ==
    \E form \in {GoodForm, NoEmailForm} : send_emails(form, <<>>, None, QuietOracle)

NextPreview == Index \/ PreparePreview \/ MapPreview \/ SendPreview

SpecPreview == Init /\ [][NextPreview]_vars

\* The credential store: every form, several .env files.

InitStore == InitWith({EnvFileNone, EnvFileOld, EnvFileDup}, {None})

PrepareStore == prepare(UploadB, TemplateHola, <<>>)

MapStore ==
    \E e \in {Some(ColMail), Some(<<"zzz">>)} : map_columns(e, Some(ColNombre), None)

SendStore ==
    \E form \in StoreForms :
        \E o \in PlainOracles(form) : send_emails(form, <<>>, None, o)

NextStore == Index \/ PrepareStore \/ MapStore \/ SendStore

SpecStore == InitStore /\ [][NextStore]_vars

\* ------------------------------------------------------------- properties

\* the records of the session
Records == Get(session, "mapped_records", <<>>)

\* the last request was a send whose SMTP login succeeded
PastConnect ==
    /\ resp.step = "send"
    /\ \E j \in DOMAIN calls : calls[j].op = "login" /\ calls[j].ok

\* the positions in calls of the sendmail calls made for record i
SendmailFor(i) == {j \in DOMAIN calls : calls[j].op = "sendmail" /\ calls[j].idx = i}

\* the positions in calls of all sendmail calls
Sendmails == {j \in DOMAIN calls : calls[j].op = "sendmail"}

NoEmail(i) == to_addr(Records[i]) = <<>>

\* the template of the session renders for record i
Renders(i) ==
    Render(Get(session, "message_template", <<>>), Get(Records[i], "name", <<>>),
           to_addr(Records[i])).ok

\* record i was sent: a sendmail call for it returned
Sent(i) == \E j \in SendmailFor(i) : calls[j].ok

\* C1: a batch that got past the SMTP login yields one result per record; a
\* record without email gets an error result and no sendmail call, and every
\* record with an email that renders still gets its sendmail call.
C1_OneResultPerRecord ==
    PastConnect =>
        /\ Len(results) = Len(Records)
        /\ \A i \in DOMAIN Records :
              /\ NoEmail(i) => results[i].status = "error" /\ SendmailFor(i) = {}
              /\ (~NoEmail(i) /\ Renders(i)) => Cardinality(SendmailFor(i)) = 1

\* a record without email is followed by a record that was sent
C1_Witness ==
    /\ PastConnect
    /\ \E k \in DOMAIN Records, i \in DOMAIN Records :
          k < i /\ NoEmail(k) /\ Sent(i) /\ Len(results) = Len(Records)

\* C2: the results are in the order of the records (result i names the address
\* of record i), and the sendmail calls are made in increasing record index,
\* each to the address of its record.
C2_ResultsInRecordOrder ==
    PastConnect =>
        /\ DOMAIN results = DOMAIN Records
        /\ \A i \in DOMAIN results : results[i].to = to_addr(Records[i])
        /\ \A j \in Sendmails, k \in Sendmails : j < k => calls[j].idx < calls[k].idx
        /\ \A j \in Sendmails : calls[j].msg.To = to_addr(Records[calls[j].idx])

\* a batch with a failed sendmail, a skipped record and a later successful one
C2_Witness ==
    /\ PastConnect
    /\ \E i \in DOMAIN Records, k \in DOMAIN Records, m \in DOMAIN Records :
          /\ i < k /\ k < m
          /\ SendmailFor(i) # {} /\ ~Sent(i)
          /\ NoEmail(k)
          /\ Sent(m)

\* C3: a failure for one record does not abort the batch.  A render failure or a
\* sendmail failure for record i gives result i the status error with the text
\* of the exception, later records are still attempted, a result is "enviado"
\* with an empty detail exactly when the record rendered and its sendmail
\* returned, and every message goes to the one address of its record.
C3_FailureDoesNotAbort ==
    PastConnect =>
        /\ Len(results) = Len(Records)
        /\ \A i \in DOMAIN Records :
              /\ (~NoEmail(i) /\ ~Renders(i)) =>
                    /\ results[i].status = "error"
                    /\ results[i].detail \in
                          {<<"unexpected end of template">>, <<"division by zero">>}
              /\ (SendmailFor(i) # {} /\ ~Sent(i)) =>
                    results[i] = Result(to_addr(Records[i]), "error", ExcStr(SmtpError))
              /\ (~NoEmail(i) /\ Renders(i)) => SendmailFor(i) # {}
              /\ results[i].status = "enviado" <=> (~NoEmail(i) /\ Renders(i) /\ Sent(i))
              /\ results[i].status = "enviado" => results[i].detail = <<>>
        /\ \A j \in Sendmails : calls[j].rcpts = <<to_addr(Records[calls[j].idx])>>

\* a render failure for one record is followed by a record that was sent
C3_Witness ==
    /\ PastConnect
    /\ \E i \in DOMAIN Records, m \in DOMAIN Records :
          i < m /\ ~NoEmail(i) /\ ~Renders(i) /\ results[i].status = "error" /\ Sent(m)

\* the last request was a send whose connection, EHLO, STARTTLS or login raised
ConnectFailed ==
    /\ resp.step = "send"
    /\ \E j \in DOMAIN calls :
          calls[j].op \in {"connect", "ehlo", "starttls", "login"} /\ ~calls[j].ok

\* C4: when a connection step raises, no sendmail is made, no results are built
\* or shown, and the answer is a redirect to the start page with the message of
\* the connection error.
C4_ConnectFailureIsFatal ==
    ConnectFailed =>
        /\ Sendmails = {}
        /\ results = <<>>
        /\ resp = Redirect("send", <<"No se pudo conectar a SMTP: ">> \o ExcStr(SmtpError))

\* STARTTLS raised in a session with records to send to
C4_Witness ==
    /\ ConnectFailed
    /\ \E j \in DOMAIN calls : calls[j].op = "starttls" /\ ~calls[j].ok
    /\ \E i \in DOMAIN Records : ~NoEmail(i) /\ Renders(i)

\* C5: after a successful upload the workflow restarts: until a mapping has
\* succeeded for the new upload, a send does not dispatch to the records that
\* were mapped from an earlier upload and shows no report.
C5_FreshUploadRestarts ==
    (resp.step = "send" /\ stale) => (Sendmails = {} /\ resp.target # "result.html")

\* the columns of the uploaded file, as a set
UploadedColumns ==
    LET path == Get(session, "upload_path", <<>>)
        cols == Table(Get(files, path, "missing")).columns
    IN  {cols[i] : i \in DOMAIN cols}

\* the field is empty or names no column of the uploaded file
BadColumn(c) == c = None \/ c[1] = <<>> \/ c[1] \notin UploadedColumns

MappingKeys == {"mapped_records", "email_col", "name_col", "subject_col"}

\* the step neither creates nor changes a mapping key of the session
MappingKeysUnchanged ==
    \A k \in MappingKeys :
        /\ k \in DOMAIN session' <=> k \in DOMAIN session
        /\ k \in DOMAIN session => session'[k] = session[k]

\* C6: a map request whose email_col or name_col is empty or names no column
\* of the uploaded file is answered by a redirect and leaves mapped_records,
\* email_col, name_col and subject_col of the session as they were.
C6_BadMappingRejected ==
    [][resp'.step = "map" =>
        \A e \in EmailColInputs, n \in NameColInputs, sc \in SubjectColInputs :
            (map_columns(e, n, sc) /\ (BadColumn(e) \/ BadColumn(n))) =>
                (resp'.kind = "redirect" /\ MappingKeysUnchanged)]_vars

\* a mapping with a wrong column was rejected in a session that holds records
C6_Witness ==
    /\ resp = Redirect("map", <<"Selecciona correctamente las columnas">>)
    /\ HasKey("mapped_records")
    /\ ~stale

\* a precondition of the send fails for this form
PreconditionFails(form) ==
    \/ Records = <<>>
    \/ Strip(OptGet(form.smtp_email, <<>>)) = <<>>
    \/ Strip(OptGet(form.smtp_app_password, <<>>)) = <<>>

\* C7: a send without records, or without a sender address or password after
\* trimming, is answered by a redirect to the start page; it opens no SMTP
\* connection, sends nothing and leaves the credential store alone.
C7_SendPreconditions ==
    [][resp'.step = "send" =>
        \A form \in FlowForms : \A o \in PlainOracles(form) :
            (send_emails(form, <<>>, None, o) /\ PreconditionFails(form)) =>
                /\ resp'.kind = "redirect" /\ resp'.target = "index"
                /\ calls' = <<>>
                /\ UNCHANGED store]_vars

\* the payloads of the parts of a message, in order
Payloads(parts) == [i \in DOMAIN parts |-> parts[i].payload]

\* the contents of the uploaded parts whose name ends in .pdf, whatever its
\* case, and whose content was read and is not empty, in upload order
RECURSIVE PdfContents(_)
PdfContents(parts) ==
    IF parts = <<>> THEN <<>>
    ELSE (IF /\ EndsWith(Lower(parts[1].filename), <<".", "pdf">>)
             /\ parts[1].readable
             /\ parts[1].bytes # <<>>
          THEN <<parts[1].bytes>> ELSE <<>>)
         \o PdfContents(Tail(parts))

\* C8: every message sent carries as attachment parts, in upload order, exactly
\* the uploaded attachments (the 'attachments' list, then the legacy field)
\* whose name ends in .pdf and whose content is not empty.
C8_OnlyPdfAttachments ==
    [][resp'.step = "send" =>
        \A form \in {GoodForm, NoEmailForm}, plural \in AttachmentInputs,
           legacy \in LegacyInputs :
            \A o \in {QuietOracle, Oracle("ok", {1}, FALSE, "ok")} :
                send_emails(form, plural, legacy, o) =>
                    \A j \in DOMAIN calls' :
                        calls'[j].op = "sendmail" =>
                            Payloads(calls'[j].msg.parts)
                                = PdfContents(plural \o legacy)]_vars

\* the batch of the request ran to its end: quit was called
Completed(cs) == \E j \in DOMAIN cs : cs[j].op = "quit"

\* C9: the .env file and the process environment change in a step only when
\* the step is a send whose form sets remember_credentials to "on" and whose
\* batch ran to completion; a send answered by a redirect leaves both alone.
C9_StoreOnlyOnRemember ==
    [][store' # store =>
        /\ resp'.step = "send"
        /\ resp'.kind # "redirect"
        /\ request'.remember = Some(<<"on">>)
        /\ Completed(calls')
        /\ Len(results') = Len(Records)]_vars

\* the credentials were stored after a batch with a sent and a failed record
C9_Witness ==
    /\ resp = View("send", "result.html")
    /\ request.remember = Some(<<"on">>)
    /\ KeyEmail \in DOMAIN environ
    /\ Find(envfile, "SMTP_EMAIL") > 0
    /\ \E i \in DOMAIN results, k \in DOMAIN results :
          results[i].status = "enviado" /\ results[k].status = "error"

\* the values a reader of the file finds, key by key
FileValues(content) == load_dotenv(content, EmptyDict)

\* the keys of a sequence of updates
UpdateKeys(updates) == {updates[i][1] : i \in DOMAIN updates}

FileLines(content) == LET ls == SplitLines(content) IN {ls[i] : i \in DOMAIN ls}

\* line.strip().startswith('#')
IsCommentLine(line) == StartsWith(Strip(line), <<"#">>)

\* C11: a rewrite of the .env file keeps verbatim every comment line and every
\* line of a key that is not among the written keys.
C11_RewriteKeepsLines ==
    [][(resp'.step = "send" /\ request'.written # <<>>) =>
        \A line \in FileLines(envfile) :
            (\/ IsCommentLine(line)
             \/ (IsKeyLine(line) /\ LineKey(line) \notin UpdateKeys(request'.written)))
                => line \in FileLines(envfile')]_vars

\* C12: no exception leaves a handler: every request ends in a rendered view
\* or in a redirect with a message.
C12_NoUncaughtException ==
    resp.kind \in {"view", "redirect"} /\ (resp.kind = "redirect" => resp.flash # <<>>)

\* the positions in calls of the pauses made for record i
PauseFor(i) == {j \in DOMAIN calls : calls[j].op = "sleep" /\ calls[j].idx = i}

\* C13: in a batch that got past the login, every record with an email is
\* followed by one pause, whether its render and sendmail succeeded or raised,
\* and a record without email is followed by none.
C13_PauseAfterEveryAttempt ==
    PastConnect =>
        \A i \in DOMAIN Records :
            Cardinality(PauseFor(i)) = (IF NoEmail(i) THEN 0 ELSE 1)

\* the positions in calls of the quit calls
Quits == {j \in DOMAIN calls : calls[j].op = "quit"}

\* C14: a batch that got past the login closes the SMTP session exactly once,
\* after the last sendmail and pause, and then shows the report with one result
\* per record; when quit raises this is unchanged, and the credentials are
\* still stored if the form asked for it.
C14_QuitOnceAfterLoop ==
    PastConnect =>
        /\ Cardinality(Quits) = 1
        /\ calls[Len(calls)].op = "quit"
        /\ resp = View("send", "result.html")
        /\ Len(results) = Len(Records)
        /\ \A i \in DOMAIN Records : results[i].status = "enviado" <=> Sent(i)
        /\ request.remember = Some(<<"on">>) =>
              /\ request.written # <<>>
              /\ get_env_default(environ, KeyEmail, <<>>) = <<"u@x">>
              /\ FileValues(envfile)[KeyEmail] = <<"u@x">>

\* quit raised at the end of a batch with a sent and a failed record whose form
\* asked to remember the credentials
C14_Witness ==
    /\ PastConnect
    /\ \E j \in Quits : ~calls[j].ok
    /\ request.written # <<>>
    /\ \E i \in DOMAIN results, k \in DOMAIN results :
          results[i].status = "enviado" /\ results[k].detail = ExcStr(SmtpError)

\* call j is op and some earlier call prev returned
After(j, op, prev) ==
    calls[j].op = op => \E k \in 1..(j - 1) : calls[k].op = prev /\ calls[k].ok

\* C15: a send request uses one SMTP session in the order connect, EHLO,
\* STARTTLS, login, sendmail*: each step is made only after the step before it
\* returned, no sendmail is made before the login returned, and there is one
\* connect per request whatever happens to the recipients.
C15_ProtocolOrder ==
    resp.step = "send" =>
        /\ Cardinality({j \in DOMAIN calls : calls[j].op = "connect"}) <= 1
        /\ calls # <<>> => calls[1].op = "connect"
        /\ \A j \in DOMAIN calls :
              /\ After(j, "ehlo", "connect")
              /\ After(j, "starttls", "ehlo")
              /\ After(j, "login", "starttls")
              /\ After(j, "sendmail", "login")
              /\ calls[j].op \in {"ehlo", "starttls", "login"} =>
                    Cardinality({k \in DOMAIN calls : calls[k].op = calls[j].op}) = 1

\* a sendmail was made after an earlier sendmail of the same batch had raised
C15_Witness ==
    /\ resp.step = "send"
    /\ \E j \in Sendmails, k \in Sendmails : j < k /\ ~calls[j].ok /\ calls[k].ok

\* C16: a send request leaves the session as it was on every path, and so does
\* an upload or a mapping that is rejected with a redirect.
C16_SessionFrame ==
    [][/\ resp'.step = "send" => session' = session
       /\ (resp'.step \in {"prepare", "map"} /\ resp'.kind = "redirect") =>
              session' = session]_vars

\* an unreadable upload was rejected in a session that holds a mapping
C16_Witness ==
    /\ resp.step = "prepare"
    /\ resp.kind = "redirect"
    /\ StartsWith(resp.flash, <<"No se pudo leer el archivo: ">>)
    /\ HasKey("mapped_records")
    /\ "send" \in done

\* C17: the subject of every message handed to sendmail is the record's
\* subject when the record has a non-empty one, else the session's default
\* subject when that is not empty, else "Comunicado"; it is never empty.
C17_SubjectFallback ==
    resp.step = "send" =>
        \A j \in Sendmails :
            LET rec      == Records[calls[j].idx]
                own      == IF "subject" \in DOMAIN rec THEN rec["subject"] ELSE <<>>
                fallback == Get(session, "default_subject", <<>>)
                subject  == calls[j].msg.Subject
            IN  /\ subject # <<>>
                /\ own # <<>> => subject = own
                /\ (own = <<>> /\ fallback # <<>>) => subject = fallback
                /\ (own = <<>> /\ fallback = <<>>) => subject = <<"Comunicado">>

\* one batch sent a message under the literal subject and another under the
\* subject of its record
C17_Witness ==
    /\ resp.step = "send"
    /\ \E j \in Sendmails, k \in Sendmails :
          /\ calls[j].msg.Subject = <<"Comunicado">>
          /\ "subject" \in DOMAIN Records[calls[j].idx]
          /\ calls[k].msg.Subject = <<"Aviso">>

\* the text the session's template renders to for record i
Rendered(i) ==
    Render(Get(session, "message_template", <<>>), Get(Records[i], "name", <<>>),
           to_addr(Records[i])).out

\* C18: the signature never blocks the dispatch.  In a batch that got past the
\* login every record with an email that renders is handed to sendmail, with
\* the fixed fallback signature when the signature file cannot be read; the
\* body is the rendered template, a blank line and the signature text, or the
\* rendered template alone when the signature text is empty.
C18_SignatureNeverBlocks ==
    PastConnect =>
        LET signature_text ==
                IF sigfile = None THEN FallbackSignature
                ELSE html_to_plain_text(Strip(sigfile[1]))
        IN  \A i \in DOMAIN Records :
                (~NoEmail(i) /\ Renders(i)) =>
                    /\ SendmailFor(i) # {}
                    /\ \A j \in SendmailFor(i) :
                          calls[j].msg.body =
                              IF signature_text = <<>> THEN Rendered(i)
                              ELSE Rendered(i) \o <<"\n", "\n">> \o signature_text

\* a message was sent with the fallback signature because the file was unreadable
C18_Witness ==
    /\ PastConnect
    /\ sigfile = None
    /\ \E j \in Sendmails :
          /\ calls[j].ok
          /\ EndsWith(calls[j].msg.body, <<"\n", "\n">> \o FallbackSignature)

\* the rows of the uploaded file of the session
UploadedRows == Table(Get(files, Get(session, "upload_path", <<>>), "missing")).rows

\* C19: a successful mapping stores one normalized record per row of the file
\* and shows min(5, N) samples, sample i for record i.  A sample whose template
\* fails to render is the inline error sample of that record; the others are
\* rendered, and the records are stored whatever the samples are.
C19_PreviewSamples ==
    resp = View("map", "confirm.html") =>
        LET N   == Len(UploadedRows)
            tpl == Get(session, "message_template", <<>>)
        IN  /\ HasKey("mapped_records")
            /\ Len(Records) = N
            /\ \A i \in 1..N :
                  /\ Records[i]["email"] =
                        Strip(PyStr(UploadedRows[i][session["email_col"]]))
                  /\ Records[i]["name"] =
                        Strip(PyStr(UploadedRows[i][session["name_col"]]))
            /\ Len(samples) = (IF N < 5 THEN N ELSE 5)
            /\ \A i \in DOMAIN samples :
                  LET r == Render(tpl, Records[i]["name"], Records[i]["email"])
                  IN  /\ samples[i].to = Records[i]["email"]
                      /\ r.ok => samples[i].body = r.out
                      /\ ~r.ok =>
                            /\ samples[i].subject = <<"(error)">>
                            /\ samples[i].body =
                                  <<"Error al renderizar: ">> \o ExcStr(r.exc)

\* a file of more than five rows was mapped; one of its five samples failed to
\* render and the others were rendered
C19_Witness ==
    /\ resp = View("map", "confirm.html")
    /\ Len(Records) > 5
    /\ Len(samples) = 5
    /\ samples[2].subject = <<"(error)">>
    /\ samples[3].body = <<"Hi ", "r", "3", "@z">>

\* C20: a send that opens an SMTP connection comes after a successful mapping
\* of the session, and a successful mapping after a successful upload; with an
\* empty session (fresh or expired) a mapping and a send are answered by a
\* redirect to the start page, open no connection and leave the session empty.
C20_WorkflowOrdering ==
    [][/\ (resp'.step = "send" /\ calls' # <<>>) => {"prepare", "map"} \subseteq done
       /\ resp' = View("map", "confirm.html") => "prepare" \in done
       /\ (session = EmptyDict /\ resp'.step \in {"map", "send"}) =>
              /\ resp'.kind = "redirect" /\ resp'.target = "index"
              /\ resp'.flash # <<>>
              /\ calls' = <<>>
              /\ session' = EmptyDict]_vars

\* a send opened the connection in a session that was uploaded and mapped
C20_Witness ==
    /\ resp.step = "send"
    /\ calls # <<>>
    /\ {"prepare", "map"} \subseteq done

=============================================================================
